---- MODULE Spec2Model ----
(***************************************************************************)
(* Model of the fetch-orchestration core of web_scraper_framework.py:      *)
(* RateLimiter, UserAgentManager / ProxyManager cursors, the robots.txt    *)
(* cache, WebScraper._make_request (retry loop), scrape_url / scrape_urls  *)
(* (thread pool) and scrape_url_async / scrape_urls_async (asyncio).       *)
(* main() runs one batch through scrape_urls and then the same batch       *)
(* through scrape_urls_async on the same WebScraper; the model does too.   *)
(***************************************************************************)
EXTENDS Integers, Sequences, FiniteSets, TLC

VARIABLES
    config,        \* ScrapingConfig of the WebScraper (read-only after Init)
    urls,          \* the batch handed to scrape_urls / scrape_urls_async
    now,           \* time.time(), in whole ticks
    requests,      \* RateLimiter.requests
    admitted,      \* history: the timestamps of the trailing window for which
                   \* acquire() returned True
    nadm,          \* history: how many times acquire() has returned True
    robots_cache,  \* WebScraper.robots_cache: origin -> the parser cached for it
    robots_writes, \* history, per origin: assignments to robots_cache[origin]
    robots_reads,  \* history, per origin: calls of rp.read()
    proxy_list,    \* ProxyManager.proxy_list
    ua_index,      \* UserAgentManager.current_index
    proxy_index,   \* ProxyManager.current_index
    pc,            \* per task of scrape_urls: where its worker stands
    attempt,       \* per task: the loop variable of _make_request
    wake,          \* per task: the time at which its time.sleep() may return
    nreq,          \* history, per task: session.request() calls issued
    sleeps,        \* history, per task: what slept where, in order
    results,       \* the list scrape_urls returns (so far)
    self_results,  \* WebScraper.results
    phase,         \* which call of main() is running: "pool", "async", "finished"
    apc,           \* per task of scrape_urls_async: where its coroutine stands
    arec,          \* per task of scrape_urls_async: what gather holds for it
    aresults,      \* the list scrape_urls_async returns
    th_pc,         \* per thread calling a rotation manager: where it stands
    lock,          \* per rotation manager: the thread holding its lock, or 0
    drawn,         \* history, per manager and pool entry: times returned
    files,         \* the artifacts save_results writes, per suffix
    saved,         \* history: the last call of save_results
    ret,           \* history: the last call of the RateLimiter and its answer
    stopped        \* the interrupt delivered to the call driving the batch

vars == <<config, urls, now, requests, admitted, nadm, robots_cache,
          robots_writes, robots_reads, proxy_list, ua_index, proxy_index, pc, attempt, wake,
          nreq, sleeps, results, self_results, phase, apc, arec, aresults,
          th_pc, lock, drawn, files, saved, ret, stopped>>

----------------------------------------------------------------------------
(* Bounds of the model *)

MaxTime == 3
MaxUrls == 2
MaxWorkers == 2
MaxWindow == 2
MaxRetriesBound == 2
MaxRetryDelay == 1
BurstSize == 5         \* URLs submitted at once against a limiter of two
MaxThreads == 2        \* threads calling get_proxy / get_user_agent
MaxCalls == 6          \* calls per rotation manager
MaxProxies == 3        \* proxies in the pool
MaxSaves == 2          \* calls of save_results

----------------------------------------------------------------------------
(* The stub transport and the batch's URLs.  A URL's name says how the    *)
(* stub answers it; "flaky" is a host whose connection fails now and then; *)
(* "x" is a page of another origin, whose robots.txt may be absent,        *)
(* forbidden or unreachable.                                               *)

Urls == {"ok", "nf", "unavail", "slow", "deny", "flaky"}

Http(code) == [kind |-> "http", code |-> code]
TimeoutExc == [kind |-> "Timeout", code |-> 0]
ConnExc == [kind |-> "ConnectionError", code |-> 0]

FlakyReplies == {Http(200), ConnExc}

\* what session.request() / session.get() can answer for a URL
\* a transport with no timeout: the request to the silent server never ends
TransportReplies_Hangs(u) ==
    CASE u = "ok"      -> {Http(200)}
      [] u = "nf"      -> {Http(404)}
      [] u = "unavail" -> {Http(503)}
      [] u = "slow"    -> {}
      [] u = "deny"    -> {Http(200)}
      [] u = "x"       -> {Http(200)}
      [] OTHER         -> FlakyReplies

TransportReplies(u) ==
    CASE u = "ok"      -> {Http(200)}
      [] u = "nf"      -> {Http(404)}
      [] u = "unavail" -> {Http(503)}
      [] u = "slow"    -> {TimeoutExc}
      [] u = "deny"    -> {Http(200)}
      [] u = "x"       -> {Http(200)}
      [] OTHER         -> FlakyReplies

\* scheme://netloc of a URL, the key of robots_cache
Origin(u) == IF u = "x" THEN "other" ELSE "site"

\* rp.can_fetch('*', url) against the origin's robots.txt
CanFetch(u) == u # "deny"

----------------------------------------------------------------------------
(* Pure helpers *)

RECURSIVE Pow2(_)
Pow2(n) == IF n = 0 THEN 1 ELSE 2 * Pow2(n - 1)

RECURSIVE SeqMin(_)
SeqMin(s) == IF Len(s) = 1 THEN s[1]
             ELSE LET m == SeqMin(Tail(s)) IN IF s[1] < m THEN s[1] ELSE m

Max(a, b) == IF a > b THEN a ELSE b
Min(a, b) == IF a < b THEN a ELSE b

\* RateLimiter.acquire, line 108: timestamps still inside the window at t
\* the window closed at its far end: a timestamp exactly time_window old stays
Pruned_Inclusive(reqs, t) ==
    SelectSeq(reqs, LAMBDA r : t - r <= config.request_delay)

Pruned(reqs, t) == SelectSeq(reqs, LAMBDA r : t - r < config.request_delay)

\* line 111 with <= for <
Admits_OffByOne(reqs, t) ==
    Len(Pruned(reqs, t)) <= config.max_concurrent_requests

\* RateLimiter.acquire, line 111: is the caller admitted?
Admits(reqs, t) == Len(Pruned(reqs, t)) < config.max_concurrent_requests

\* an acquire that appends the timestamp before it looks at the count
AfterAcquire_AlwaysRecords(reqs, t) == Append(Pruned(reqs, t), t)

\* RateLimiter.acquire: the timestamp list it leaves behind
AfterAcquire(reqs, t) ==
    IF Admits(reqs, t) THEN Append(Pruned(reqs, t), t) ELSE Pruned(reqs, t)

\* line 124 without the max(0, ...) of line 125
WaitTime_Unclamped(reqs, t) ==
    IF reqs = <<>> THEN 0
    ELSE config.request_delay - (t - SeqMin(reqs))

\* RateLimiter.wait_time
WaitTime(reqs, t) ==
    IF reqs = <<>> THEN 0
    ELSE Max(0, config.request_delay - (t - SeqMin(reqs)))

\* retry_delay * (2 ** attempt), line 309
Backoff(a) == config.retry_delay * Pow2(a)

\* response.raise_for_status(): does it raise?
RaisesForStatus(r) == r.kind = "http" /\ r.code >= 400 /\ r.code < 600

\* str(e) of the exception a reply turns into
ErrorOf(r) == IF r.kind = "http" THEN "HTTPError" ELSE r.kind

----------------------------------------------------------------------------
(* Extractor pipeline (scrape_url lines 326-334, scrape_url_async 416-424) *)

Extractors == <<"title", "links", "text">>

\* does extractor e raise on the document of u?
ExtractorRaises(e, u) == e = "links" /\ u = "flaky"

\* the mapping extractor e returns for u, as a set of <<key, value>> pairs;
\* a value names the extractor it comes from, and "text" emits a "title"
\* of its own besides its "text"
ExtractorOut(e, u) ==
    {<<e, <<e, u>>>>} \cup (IF e = "text" THEN {<<"title", <<e, u>>>>} ELSE {})

\* a merge that keeps what is there (dict.setdefault for every key)
DictUpdate_KeepFirst(d, m) ==
    d \cup {q \in m : \A p \in d : p[1] # q[1]}

\* dict.update
DictUpdate(d, m) == {p \in d : \A q \in m : q[1] # p[1]} \cup m

RECURSIVE ApplyExtractors(_, _, _)
ApplyExtractors(es, u, d) ==
    IF es = <<>> THEN d
    ELSE ApplyExtractors(Tail(es), u,
            IF ExtractorRaises(Head(es), u) THEN d
            ELSE DictUpdate(d, ExtractorOut(Head(es), u)))

----------------------------------------------------------------------------
(* ScrapingResult; task is the position of the URL in the batch *)

NoError == "None"

\* an extractor's exception escapes to the except branch of scrape_url
SuccessRecord_ExtractorFails(i, code) ==
    IF \E k \in 1..Len(Extractors) : ExtractorRaises(Extractors[k], urls[i])
    THEN [task |-> i, url |-> urls[i], status_code |-> 0, data |-> {},
          success |-> FALSE, error |-> "ExtractorError"]
    ELSE [task |-> i, url |-> urls[i], status_code |-> code,
          data |-> ApplyExtractors(Extractors, urls[i], {}),
          success |-> TRUE, error |-> NoError]

SuccessRecord(i, code) ==
    [task |-> i, url |-> urls[i], status_code |-> code,
     data |-> ApplyExtractors(Extractors, urls[i], {}),
     success |-> TRUE, error |-> NoError]

\* the except branch of scrape_url without error=str(e)
FailureRecord_NoError(i, err) ==
    [task |-> i, url |-> urls[i], status_code |-> 0, data |-> {},
     success |-> FALSE, error |-> NoError]

FailureRecord(i, err) ==
    [task |-> i, url |-> urls[i], status_code |-> 0, data |-> {},
     success |-> FALSE, error |-> err]

NoRecord == [task |-> 0]

----------------------------------------------------------------------------
(* Initial state: a WebScraper just constructed, a batch about to run *)

Configs ==
    [max_concurrent_requests : 1..MaxWorkers,
     request_delay : 1..MaxWindow,
     max_retries : 0..MaxRetriesBound,
     retry_delay : 1..MaxRetryDelay,
     respect_robots_txt : BOOLEAN,
     user_agent_rotation : BOOLEAN,
     proxy_rotation : {FALSE},
     output_format : {"json"},
     max_pages : 0..MaxUrls]

BatchesOf(us) == UNION {[1..n -> us] : n \in 0..MaxUrls}
Batches == BatchesOf(Urls)

\* number of entries of UserAgentManager.user_agents (lines 169-175)
NumUserAgents == 5

Tasks == DOMAIN urls
\* a batch handed to the workers whole
Submitted_All == Tasks

\* urls[:self.config.max_pages]
Submitted == {i \in Tasks : i <= config.max_pages}

\* the rotation managers and their pools
Managers == {"proxy", "ua"}
PoolSize(m) == IF m = "proxy" THEN Len(proxy_list) ELSE NumUserAgents
\* the locks of a scraper: one per manager and the one of its RateLimiter
Locks == Managers \cup {"limiter"}

\* a WebScraper built with a configuration of cfgs, proxies added to its
\* ProxyManager or not, and a batch of batches about to run
\* an artifact that has not been written
NoFile == [exists |-> FALSE, rows |-> <<>>]
\* save_results has not been called
NoSave == [calls |-> 0, given |-> FALSE, arg |-> <<>>, batch |-> <<>>,
           prev |-> <<>>,
           raised |-> FALSE]
\* the RateLimiter has not been called
NoCall == [op |-> "none", ok |-> FALSE, val |-> 0, at |-> 0]
NoRet == [op |-> "none", ok |-> FALSE, val |-> 0, before |-> <<>>,
          after |-> <<>>, at |-> 0, prev |-> <<NoCall, NoCall>>]
\* what the history keeps of the two calls before the last one
Earlier(r) ==
    <<[op |-> r.op, ok |-> r.ok, val |-> r.val, at |-> r.at], r.prev[1]>>
\* no interrupt has been delivered
NotStopped == [on |-> FALSE, running |-> {}]

\* a thread that is in no call of a rotation manager
Idle == [at |-> "idle", m |-> "ua", got |-> 0]

InitWith(cfgs, batches, proxies, threads) ==
    /\ config \in cfgs
    /\ urls \in batches
    /\ proxy_list \in proxies
    /\ now = 0
    /\ requests = <<>>
    /\ admitted = <<>>
    /\ nadm = 0
    /\ robots_cache = <<>>
    /\ robots_writes = [o \in {"site", "other"} |-> 0]
    /\ robots_reads = [o \in {"site", "other"} |-> 0]
    /\ ua_index = 1 % NumUserAgents   \* _setup_session drew one user agent
    /\ proxy_index = 0
    /\ pc = [i \in DOMAIN urls |-> "queued"]
    /\ attempt = [i \in DOMAIN urls |-> 0]
    /\ wake = [i \in DOMAIN urls |-> 0]
    /\ nreq = [i \in DOMAIN urls |-> 0]
    /\ sleeps = [i \in DOMAIN urls |-> <<>>]
    /\ results = <<>>
    /\ self_results = <<>>
    /\ phase = "pool"
    /\ apc = [i \in DOMAIN urls |-> "pending"]
    /\ arec = [i \in DOMAIN urls |-> NoRecord]
    /\ aresults = <<>>
    /\ th_pc = [t \in 1..threads |-> Idle]
    /\ lock = [m \in Locks |-> 0]
    /\ drawn = [m \in Managers |->
                    [e \in 0..(Max(NumUserAgents, MaxProxies) - 1) |-> 0]]
    /\ files = [f \in {"json", "csv", "db"} |-> NoFile]
    /\ saved = NoSave
    /\ ret = NoRet
    /\ stopped = NotStopped

\* ProxyManager() is built without a list (line 203): proxy_list = []
Init == InitWith(Configs, Batches, {<<>>}, 0)

----------------------------------------------------------------------------
(* Shared collaborators of the fetcher *)

\* what rp.read() can do for an origin: parse the document ("rules"); meet
\* a 4xx other than 401/403 and set allow_all; meet a 401/403 and set
\* disallow_all, or a 5xx and stay unread, so that can_fetch is False for
\* every URL ("deny_all"); or raise (URLError, timeout)
RobotsReadOutcomes(o) ==
    IF o = "other" THEN {"rules", "allow_all", "deny_all", "raise"}
    ELSE {"rules"}

\* rp.can_fetch('*', url) on a parser that read() left as entry e
EntryAllows(e, u) == e = "allow_all" \/ (e = "rules" /\ CanFetch(u))

\* self.robots_cache[robots_url] = rp
CachePut(c, o, e) ==
    [x \in (DOMAIN c) \cup {o} |-> IF x = o THEN e ELSE c[x]]

\* robots_url in self.robots_cache
Cached(o) == o \in DOMAIN robots_cache

\* a scraper that consults robots.txt whatever its configuration says
RobotsEnabled_Always == TRUE

\* line 237: if not self.config.respect_robots_txt: return True
RobotsEnabled == config.respect_robots_txt

\* _check_robots_txt: the value it returns, given what rp.read() would do
RobotsAllowed(u, outcome) ==
    IF ~RobotsEnabled THEN TRUE
    ELSE IF Cached(Origin(u)) THEN EntryAllows(robots_cache[Origin(u)], u)
    ELSE IF outcome = "raise" THEN TRUE
    ELSE EntryAllows(outcome, u)

\* _check_robots_txt: the cache it leaves behind
RobotsCacheAfter(u, outcome) ==
    IF ~RobotsEnabled THEN robots_cache
    ELSE IF Cached(Origin(u)) THEN robots_cache
    ELSE IF outcome = "raise" THEN robots_cache
    ELSE CachePut(robots_cache, Origin(u), outcome)

\* _check_robots_txt: does it assign robots_cache[origin]?
RobotsWrites(u, outcome) ==
    RobotsEnabled /\ ~Cached(Origin(u)) /\ outcome # "raise"

\* UserAgentManager.get_user_agent: the cursor after one draw
UaAfterDraw(idx) == (idx + 1) % NumUserAgents

\* ProxyManager.get_proxy: the cursor after one call
ProxyAfterDraw(idx) ==
    IF proxy_list = <<>> THEN idx ELSE (idx + 1) % Len(proxy_list)

----------------------------------------------------------------------------
(* scrape_urls: the thread pool and, per task, scrape_url/_make_request   *)

Running == {i \in Submitted : pc[i] \notin {"queued", "done"}}

asyncVars == <<apc, arec, aresults>>
limiterVars == <<requests, admitted, nadm>>
robotsVars == <<robots_cache, robots_writes, robots_reads>>
\* what no step of a batch changes
frameVars == <<config, urls, proxy_list, th_pc, lock, drawn, files, saved,
               ret, stopped>>

\* the executor has an idle worker (max_workers, line 372)
\* a pool that starts a worker for every submitted URL at once
WorkerFree_Unbounded == TRUE

WorkerFree == Cardinality(Running) < config.max_concurrent_requests
rotatorVars == <<ua_index, proxy_index>>

\* scrape_url lets the exception out: scrape_urls logs it (line 387) and
\* the URL gets no record
Complete_Reraise(i, rec) ==
    /\ pc' = [pc EXCEPT ![i] = "done"]
    /\ results' = IF rec.success THEN Append(results, rec) ELSE results
    /\ self_results' = IF rec.success THEN Append(self_results, rec)
                       ELSE self_results

\* scrape_url returns its record and as_completed hands it to scrape_urls;
\* once the interrupt has ended the as_completed loop nobody takes it
Complete(i, rec) ==
    /\ pc' = [pc EXCEPT ![i] = "done"]
    /\ results' = IF stopped.on THEN results ELSE Append(results, rec)
    /\ self_results' = IF stopped.on THEN self_results
                       ELSE Append(self_results, rec)

\* the except clause of _make_request (lines 306-311) for exception err
Handler(i, err) ==
    IF attempt[i] < config.max_retries
    THEN /\ pc' = [pc EXCEPT ![i] = "backoff"]
         /\ wake' = [wake EXCEPT ![i] = now + Backoff(attempt[i])]
         /\ sleeps' = [sleeps EXCEPT ![i] =
                Append(@, [kind |-> "backoff", d |-> Backoff(attempt[i]),
                           after |-> nreq[i]])]
         /\ UNCHANGED <<results, self_results>>
    ELSE /\ Complete(i, FailureRecord(i, err))
         /\ UNCHANGED <<wake, sleeps>>

\* a loop whose variable never advances
NextIteration_Stuck(i) ==
    /\ pc' = [pc EXCEPT ![i] = "acquire"]
    /\ UNCHANGED <<attempt, results, self_results>>

\* the for statement of line 269 takes its next value, or the loop ends,
\* _make_request returns None and scrape_url fails on response.content
NextIteration(i) ==
    IF attempt[i] < config.max_retries
    THEN /\ attempt' = [attempt EXCEPT ![i] = @ + 1]
         /\ pc' = [pc EXCEPT ![i] = "acquire"]
         /\ UNCHANGED <<results, self_results>>
    ELSE /\ Complete(i, FailureRecord(i, "NoneType"))
         /\ UNCHANGED attempt

\* a pool worker takes the next submitted task off the queue
StartTask(i) ==
    /\ phase = "pool"
    /\ i \in Submitted
    /\ pc[i] = "queued"
    /\ \A j \in Submitted : j < i => pc[j] # "queued"
    /\ WorkerFree
    /\ pc' = [pc EXCEPT ![i] = "acquire"]
    /\ UNCHANGED <<frameVars, now, limiterVars, robotsVars, rotatorVars,
                   attempt, wake, nreq, sleeps, results,
                   self_results, phase, asyncVars>>

\* line 272: self.rate_limiter.acquire()
Acquire(i) ==
    /\ pc[i] = "acquire"
    /\ requests' = AfterAcquire(requests, now)
    /\ IF Admits(requests, now)
       THEN /\ admitted' = Append(admitted, now)
            /\ nadm' = nadm + 1
            /\ pc' = [pc EXCEPT ![i] = "robots"]
       ELSE /\ admitted' = admitted
            /\ nadm' = nadm
            /\ pc' = [pc EXCEPT ![i] = "wait_time"]
    /\ UNCHANGED <<frameVars, now, robotsVars, rotatorVars, attempt,
                   wake, nreq, sleeps, results, self_results,
                   phase, asyncVars>>

\* lines 273-275: wait_time() and the start of time.sleep(wait_time)
RateLimitSleep(i) ==
    /\ pc[i] = "wait_time"
    /\ pc' = [pc EXCEPT ![i] = "rl_sleep"]
    /\ wake' = [wake EXCEPT ![i] = now + WaitTime(requests, now)]
    /\ sleeps' = [sleeps EXCEPT ![i] =
            Append(@, [kind |-> "rate", d |-> WaitTime(requests, now),
                       after |-> nreq[i]])]
    /\ UNCHANGED <<frameVars, now, limiterVars, robotsVars, rotatorVars,
                   attempt, nreq, results, self_results, phase,
                   asyncVars>>

\* line 276: the sleep is over, continue
RateLimitContinue(i) ==
    /\ pc[i] = "rl_sleep"
    /\ now >= wake[i]
    /\ NextIteration(i)
    /\ UNCHANGED <<frameVars, now, limiterVars, robotsVars, rotatorVars,
                   wake, nreq, sleeps, phase, asyncVars>>

\* lines 284-300: headers, proxy, and session.request() goes out
SendRequest(i) ==
    /\ ua_index' = IF config.user_agent_rotation
                   THEN UaAfterDraw(ua_index) ELSE ua_index
    /\ proxy_index' = ProxyAfterDraw(proxy_index)
    /\ nreq' = [nreq EXCEPT ![i] = @ + 1]
    /\ pc' = [pc EXCEPT ![i] = "in_flight"]

\* lines 279-300 once _check_robots_txt has answered: the request goes
\* out, or "Blocked by robots.txt" is raised into the except clause
AfterRobots(i, allowed) ==
    IF allowed
    THEN /\ SendRequest(i)
         /\ UNCHANGED <<wake, sleeps, results, self_results>>
    ELSE /\ Handler(i, "Blocked by robots.txt")
         /\ UNCHANGED <<rotatorVars, nreq>>

\* lines 237-245: _check_robots_txt is entered; with the check disabled or
\* the origin cached it answers at once, otherwise rp.read() starts
CheckRobots(i) ==
    /\ pc[i] = "robots"
    /\ IF RobotsEnabled /\ ~Cached(Origin(urls[i]))
       THEN /\ pc' = [pc EXCEPT ![i] = "robots_read"]
            /\ robots_reads' =
                  [robots_reads EXCEPT ![Origin(urls[i])] = @ + 1]
            /\ UNCHANGED <<rotatorVars, nreq, wake, sleeps, results,
                           self_results>>
       ELSE /\ AfterRobots(i, RobotsAllowed(urls[i], "raise"))
            /\ UNCHANGED robots_reads
    /\ UNCHANGED <<frameVars, now, limiterVars, robots_cache, robots_writes,
                   attempt, phase, asyncVars>>

\* lines 249-255: rp.read() returns and the parser is stored in the cache,
\* whatever the cache holds by now, or rp.read() raises and True is returned
RobotsRead(i) ==
    /\ pc[i] = "robots_read"
    /\ \E outcome \in RobotsReadOutcomes(Origin(urls[i])) :
        IF outcome = "raise"
        THEN /\ UNCHANGED <<robots_cache, robots_writes>>
             /\ AfterRobots(i, TRUE)
        ELSE /\ robots_cache' = CachePut(robots_cache, Origin(urls[i]), outcome)
             /\ robots_writes' =
                    [robots_writes EXCEPT ![Origin(urls[i])] = @ + 1]
             /\ AfterRobots(i, EntryAllows(outcome, urls[i]))
    /\ UNCHANGED <<frameVars, now, limiterVars, robots_reads, attempt, phase,
                   asyncVars>>

\* session.request() returns or raises; raise_for_status; return or except
Reply(i) ==
    /\ pc[i] = "in_flight"
    /\ \E r \in TransportReplies(urls[i]) :
        /\ IF r.kind # "http" \/ RaisesForStatus(r)
           THEN Handler(i, ErrorOf(r))
           ELSE /\ Complete(i, SuccessRecord(i, r.code))
                /\ UNCHANGED <<wake, sleeps>>
    /\ UNCHANGED <<frameVars, now, limiterVars, robotsVars, rotatorVars,
                   attempt, nreq, phase, asyncVars>>

\* line 309: the backoff sleep is over, next iteration of the loop
BackoffWake(i) ==
    /\ pc[i] = "backoff"
    /\ now >= wake[i]
    /\ NextIteration(i)
    /\ UNCHANGED <<frameVars, now, limiterVars, robotsVars, rotatorVars,
                   wake, nreq, sleeps, phase, asyncVars>>

\* scrape_urls returns: every future has completed; after an interrupt the
\* with block ends the same way (shutdown(wait=True)) and KeyboardInterrupt
\* leaves scrape_urls and main()
PoolReturn ==
    /\ phase = "pool"
    /\ \A i \in Submitted : pc[i] = "done"
    /\ phase' = IF stopped.on THEN "finished" ELSE "async"
    /\ UNCHANGED <<frameVars, now, limiterVars, robotsVars, rotatorVars,
                   pc, attempt, wake, nreq, sleeps, results,
                   self_results, asyncVars>>

\* the clock advances
Tick ==
    /\ now < MaxTime
    /\ now' = now + 1
    /\ admitted' = SelectSeq(admitted,
                        LAMBDA t : (now + 1) - t < config.request_delay)
    /\ UNCHANGED <<frameVars, requests, nadm, robotsVars, rotatorVars, pc,
                   attempt, wake, nreq, sleeps, results,
                   self_results, phase, asyncVars>>

----------------------------------------------------------------------------
(* scrape_urls_async: gather over scrape_url_async coroutines *)

poolVars == <<pc, attempt, wake, nreq, sleeps, results, self_results>>

AsyncInFlight == {i \in Submitted : apc[i] = "in_flight"}

\* lines 395-410: the coroutine runs up to its first await
AsyncStart(i) ==
    /\ phase = "async"
    /\ i \in Submitted
    /\ apc[i] = "pending"
    /\ \A j \in Submitted : j < i => apc[j] # "pending"
    /\ \E outcome \in RobotsReadOutcomes(Origin(urls[i])) :
        /\ robots_cache' = RobotsCacheAfter(urls[i], outcome)
        /\ robots_writes' =
              IF RobotsWrites(urls[i], outcome)
              THEN [robots_writes EXCEPT ![Origin(urls[i])] = @ + 1]
              ELSE robots_writes
        /\ robots_reads' =
              IF RobotsEnabled /\ ~Cached(Origin(urls[i]))
              THEN [robots_reads EXCEPT ![Origin(urls[i])] = @ + 1]
              ELSE robots_reads
        /\ IF RobotsAllowed(urls[i], outcome)
           THEN /\ ua_index' = IF config.user_agent_rotation
                               THEN UaAfterDraw(ua_index) ELSE ua_index
                /\ apc' = [apc EXCEPT ![i] = "connecting"]
                /\ arec' = arec
           ELSE /\ ua_index' = ua_index
                /\ apc' = [apc EXCEPT ![i] = "done"]
                /\ arec' = [arec EXCEPT ![i] =
                                FailureRecord(i, "Blocked by robots.txt")]
    /\ UNCHANGED <<frameVars, now, limiterVars, proxy_index, poolVars,
                   phase, aresults>>

\* the connector has a free connection (limit, line 460)
ConnectorFree == Cardinality(AsyncInFlight) < config.max_concurrent_requests

\* session.get: the connector (limit = max_concurrent_requests) has a slot
AsyncConnect(i) ==
    /\ phase = "async"
    /\ apc[i] = "connecting"
    /\ ConnectorFree
    /\ apc' = [apc EXCEPT ![i] = "in_flight"]
    /\ UNCHANGED <<frameVars, now, limiterVars, robotsVars, rotatorVars,
                   poolVars, phase, arec, aresults>>

\* lines 410-454: the response (or exception) arrives, the record is built
AsyncReply(i) ==
    /\ phase = "async"
    /\ apc[i] = "in_flight"
    /\ \E r \in TransportReplies(urls[i]) :
        arec' = [arec EXCEPT ![i] =
                    IF r.kind # "http" THEN FailureRecord(i, ErrorOf(r))
                    ELSE SuccessRecord(i, r.code)]
    /\ apc' = [apc EXCEPT ![i] = "done"]
    /\ UNCHANGED <<frameVars, now, limiterVars, robotsVars, rotatorVars,
                   poolVars, phase, aresults>>

RECURSIVE GatherFrom(_, _)
\* asyncio.gather: the results in task order, from task i to task n
GatherFrom(i, n) ==
    IF i > n THEN <<>> ELSE <<arec[i]>> \o GatherFrom(i + 1, n)

\* lines 469-475: gather returns, scrape_urls_async returns valid_results
AsyncGather ==
    /\ phase = "async"
    /\ \A i \in Submitted : apc[i] = "done"
    /\ aresults' = GatherFrom(1, Cardinality(Submitted))
    /\ phase' = "finished"
    /\ UNCHANGED <<frameVars, now, limiterVars, robotsVars, rotatorVars,
                   poolVars, apc, arec>>

----------------------------------------------------------------------------

Next ==
    \/ \E i \in Tasks : StartTask(i)
    \/ \E i \in Tasks : Acquire(i)
    \/ \E i \in Tasks : RateLimitSleep(i)
    \/ \E i \in Tasks : RateLimitContinue(i)
    \/ \E i \in Tasks : CheckRobots(i)
    \/ \E i \in Tasks : RobotsRead(i)
    \/ \E i \in Tasks : Reply(i)
    \/ \E i \in Tasks : BackoffWake(i)
    \/ PoolReturn
    \/ Tick
    \/ \E i \in Tasks : AsyncStart(i)
    \/ \E i \in Tasks : AsyncConnect(i)
    \/ \E i \in Tasks : AsyncReply(i)
    \/ AsyncGather

Spec == Init /\ [][Next]_vars

\* batches over two origins, with the robots.txt check enabled
RobotUrls == {"ok", "deny", "x"}
RobotConfigs ==
    {c \in Configs : c.respect_robots_txt /\ c.user_agent_rotation
                        /\ c.max_pages = MaxUrls}
InitRobots == InitWith(RobotConfigs, BatchesOf(RobotUrls), {<<>>}, 0)
SpecRobots == InitRobots /\ [][Next]_vars

\* scrapers whose proxy pool the caller has filled (add_proxy), with the
\* proxy_rotation flag of the configuration set either way
ProxyPools == {<<>>, <<"p1", "p2">>}
ProxyConfigs ==
    {[c EXCEPT !.proxy_rotation = b] :
        c \in {d \in Configs : d.max_pages = MaxUrls},
        b \in BOOLEAN}
InitProxy == InitWith(ProxyConfigs, BatchesOf({"ok", "nf"}), ProxyPools, 0)
SpecProxy == InitProxy /\ [][Next]_vars

\* a burst: BurstSize URLs submitted at once to a scraper whose limiter
\* admits two requests per one-second window
BurstConfigs ==
    {[c EXCEPT !.max_pages = BurstSize] :
        c \in {d \in Configs : /\ d.max_concurrent_requests = 2
                                /\ d.request_delay = 1
                                /\ d.user_agent_rotation}}
BurstBatches ==
    {[i \in 1..BurstSize |-> IF i = BurstSize THEN u ELSE "ok"] :
        u \in {"ok", "nf"}}
InitBurst == InitWith(BurstConfigs, BurstBatches, {<<>>}, 0)
\* one call of scrape_urls: the steps of the pool and of its workers
NextPool ==
    \/ \E i \in Tasks : StartTask(i)
    \/ \E i \in Tasks : Acquire(i)
    \/ \E i \in Tasks : RateLimitSleep(i)
    \/ \E i \in Tasks : RateLimitContinue(i)
    \/ \E i \in Tasks : CheckRobots(i)
    \/ \E i \in Tasks : RobotsRead(i)
    \/ \E i \in Tasks : Reply(i)
    \/ \E i \in Tasks : BackoffWake(i)
    \/ PoolReturn
    \/ Tick

SpecBurst == InitBurst /\ [][NextPool]_vars

\* the stop signal of the program: SIGINT, raised as KeyboardInterrupt in
\* the thread that waits in as_completed.  No statement of scrape_urls
\* looks at it: the executor keeps feeding the queued URLs to its workers
StopSignal ==
    /\ phase = "pool"
    /\ ~stopped.on
    /\ stopped' = [on |-> TRUE, running |-> Running]
    /\ UNCHANGED <<config, urls, proxy_list, th_pc, lock, drawn, files,
                   saved, ret, now, limiterVars, robotsVars, rotatorVars,
                   poolVars, phase, asyncVars>>

\* one call of scrape_urls that may be interrupted
NextStop ==
    \/ \E i \in Tasks : StartTask(i)
    \/ \E i \in Tasks : Acquire(i)
    \/ \E i \in Tasks : RateLimitSleep(i)
    \/ \E i \in Tasks : RateLimitContinue(i)
    \/ \E i \in Tasks : CheckRobots(i)
    \/ \E i \in Tasks : RobotsRead(i)
    \/ \E i \in Tasks : Reply(i)
    \/ \E i \in Tasks : BackoffWake(i)
    \/ PoolReturn
    \/ Tick
    \/ StopSignal

StopConfigs ==
    {c \in Configs : c.user_agent_rotation /\ c.max_pages = MaxUrls}
InitStop == InitWith(StopConfigs, BatchesOf({"ok", "nf"}), {<<>>}, 0)
SpecStop == InitStop /\ [][NextStop]_vars

-----------------------------------------------------------------------------
(* The RateLimiter on its own: callers of acquire() and wait_time() at      *)
(* any time, each call atomic under self.lock.                              *)

\* acquire(), lines 102-115
LimAcquire ==
    /\ requests' = AfterAcquire(requests, now)
    /\ admitted' = IF Admits(requests, now) THEN Append(admitted, now)
                   ELSE admitted
    /\ nadm' = IF Admits(requests, now) THEN nadm + 1 ELSE nadm
    /\ ret' = [op |-> "acquire", ok |-> Admits(requests, now), val |-> 0,
               before |-> requests, after |-> AfterAcquire(requests, now),
               at |-> now, prev |-> Earlier(ret)]
    /\ UNCHANGED <<config, urls, proxy_list, th_pc, lock, drawn, files,
                   saved, stopped, now, robotsVars, rotatorVars, poolVars,
                   phase, asyncVars>>

\* wait_time(), lines 117-125
LimWaitTime ==
    /\ ret' = [op |-> "wait_time", ok |-> FALSE,
               val |-> WaitTime(requests, now),
               before |-> requests, after |-> requests, at |-> now,
               prev |-> Earlier(ret)]
    /\ UNCHANGED <<config, urls, proxy_list, th_pc, lock, drawn, files,
                   saved, stopped, now, limiterVars, robotsVars,
                   rotatorVars, poolVars, phase, asyncVars>>

NextLimiter ==
    \/ LimAcquire
    \/ LimWaitTime
    \/ Tick

LimiterConfigs ==
    {c \in Configs : /\ c.max_retries = 0 /\ c.retry_delay = 1
                     /\ ~c.respect_robots_txt /\ c.user_agent_rotation
                     /\ c.max_pages = 0}
InitLimiter == InitWith(LimiterConfigs, {<<>>}, {<<>>}, 0)
SpecLimiter == InitLimiter /\ [][NextLimiter]_vars

-----------------------------------------------------------------------------
(* save_results and its three writers (lines 477-567)                       *)

\* the values of output_format the configuration documents (line 73)
Formats == {"json", "csv", "sqlite", "xml"}

\* json.dumps / json.loads of a data mapping
JsonDumps(d) == [text |-> d]
JsonLoads(t) == t.text

\* the object _save_json appends for a record; json.dump writes it nested
JsonRow(r) == [url |-> r.url, status_code |-> r.status_code, data |-> r.data,
               success |-> r.success, error |-> r.error]

\* the row csv.writer writes for a record: str() of every field, '' for None
CsvRow(r) == [url |-> r.url, status_code |-> r.status_code,
              data |-> JsonDumps(r.data),
              success |-> IF r.success THEN "True" ELSE "False",
              error |-> IF r.error = NoError THEN "" ELSE r.error]

\* the row _save_sqlite inserts: the bool adapted to an integer, None to NULL
SqlRow(r) == [url |-> r.url, status_code |-> r.status_code,
              data |-> JsonDumps(r.data),
              success |-> IF r.success THEN 1 ELSE 0,
              error |-> IF r.error = NoError THEN "NULL" ELSE r.error]

\* the rows the three writers produce for a record list
JsonRows(rs) == [k \in 1..Len(rs) |-> JsonRow(rs[k])]
CsvRows(rs) == [k \in 1..Len(rs) |-> CsvRow(rs[k])]
SqlRows(rs) == [k \in 1..Len(rs) |-> SqlRow(rs[k])]

\* open(..., 'w'): the file is replaced
Overwritten(rows) == [exists |-> TRUE, rows |-> rows]
\* CREATE TABLE IF NOT EXISTS and INSERT: the rows are added to the table
Inserted(file, rows) == [exists |-> TRUE, rows |-> file.rows \o rows]

\* the lists a caller may pass to save_results: none, or one it holds
SaveArgs ==
    {[given |-> FALSE, list |-> <<>>], [given |-> TRUE, list |-> <<>>],
     [given |-> TRUE, list |-> results], [given |-> TRUE, list |-> aresults]}

\* save_results(results): results or self.results; nothing to save returns;
\* the writer of the configured format, _save_json for any other format
SaveResults(a) ==
    LET rs == IF a.list = <<>> THEN self_results ELSE a.list
        fmt == config.output_format
    IN
    /\ \/ phase = "finished"
       \/ phase = "async" /\ \A i \in Tasks : apc[i] = "pending"
    /\ saved.calls < MaxSaves
    /\ saved' = [calls |-> saved.calls + 1, given |-> a.given,
                 arg |-> a.list, batch |-> rs, prev |-> saved.batch,
                 raised |-> FALSE]
    /\ files' =
          IF rs = <<>> THEN files
          ELSE IF fmt = "csv"
               THEN [files EXCEPT !["csv"] = Overwritten(CsvRows(rs))]
          ELSE IF fmt = "sqlite"
               THEN [files EXCEPT !["db"] = Inserted(@, SqlRows(rs))]
          ELSE [files EXCEPT !["json"] = Overwritten(JsonRows(rs))]
    /\ UNCHANGED <<config, urls, proxy_list, th_pc, lock, drawn, ret, stopped,
                   now, limiterVars, robotsVars, rotatorVars, poolVars,
                   phase, asyncVars>>

\* a scraper that runs its batch and whose caller saves results
NextSave ==
    \/ \E i \in Tasks : StartTask(i)
    \/ \E i \in Tasks : Acquire(i)
    \/ \E i \in Tasks : RateLimitSleep(i)
    \/ \E i \in Tasks : RateLimitContinue(i)
    \/ \E i \in Tasks : CheckRobots(i)
    \/ \E i \in Tasks : RobotsRead(i)
    \/ \E i \in Tasks : Reply(i)
    \/ \E i \in Tasks : BackoffWake(i)
    \/ PoolReturn
    \/ Tick
    \/ \E i \in Tasks : AsyncStart(i)
    \/ \E i \in Tasks : AsyncConnect(i)
    \/ \E i \in Tasks : AsyncReply(i)
    \/ AsyncGather
    \/ \E a \in SaveArgs : SaveResults(a)

SaveConfigs ==
    {[c EXCEPT !.output_format = f] :
        c \in {d \in Configs : /\ d.max_concurrent_requests = 1
                                /\ d.request_delay = 1
                                /\ d.max_retries = 1
                                /\ d.respect_robots_txt
                                /\ d.user_agent_rotation
                                /\ d.max_pages = MaxUrls},
        f \in Formats}
InitSave == InitWith(SaveConfigs, BatchesOf({"ok", "nf"}), {<<>>}, 0)
SpecSave == InitSave /\ [][NextSave]_vars

-----------------------------------------------------------------------------
(* ProxyManager.get_proxy and UserAgentManager.get_user_agent, called by    *)
(* several threads, one bytecode-level step at a time.                      *)

Threads == DOMAIN th_pc
Cursor(m) == IF m = "proxy" THEN proxy_index ELSE ua_index

RECURSIVE SumDrawn(_, _)
SumDrawn(m, n) == IF n = 0 THEN 0 ELSE drawn[m][n - 1] + SumDrawn(m, n - 1)

\* the calls of manager m that have returned an entry
Returned(m) == SumDrawn(m, Max(NumUserAgents, MaxProxies))

\* the calls of manager m begun so far
Calls(m) ==
    Returned(m)
      + Cardinality({t \in Threads : th_pc[t].at # "idle" /\ th_pc[t].m = m})

\* a manager that guards nothing: every thread enters at once
LockFree_Always(m) == TRUE

\* threading.Lock: free when no thread holds it
LockFree(m) == lock[m] = 0

rotatorFrame == <<config, urls, now, limiterVars, robotsVars,
                  poolVars, phase, asyncVars, files, saved, ret, stopped>>

\* a thread calls get_proxy() or get_user_agent(); get_proxy on an empty
\* list returns None before it touches the lock
GetCall(t, m) ==
    /\ th_pc[t].at = "idle"
    /\ Calls(m) < MaxCalls
    /\ th_pc' = IF m = "proxy" /\ proxy_list = <<>>
                THEN th_pc
                ELSE [th_pc EXCEPT ![t] = [at |-> "lock", m |-> m, got |-> 0]]
    /\ UNCHANGED <<rotatorFrame, proxy_list, rotatorVars, lock, drawn>>

\* with self.lock: entered
TakeLock(t) ==
    /\ th_pc[t].at = "lock"
    /\ LockFree(th_pc[t].m)
    /\ lock' = [lock EXCEPT ![th_pc[t].m] = t]
    /\ th_pc' = [th_pc EXCEPT ![t].at = "read"]
    /\ UNCHANGED <<rotatorFrame, proxy_list, rotatorVars, drawn>>

\* entry = pool[self.current_index]
\* (an index past the end raises IndexError out of the with block)
ReadEntry(t) ==
    LET m == th_pc[t].m IN
    /\ th_pc[t].at = "read"
    /\ IF Cursor(m) < PoolSize(m)
       THEN /\ th_pc' = [th_pc EXCEPT ![t].at = "advance",
                                      ![t].got = Cursor(m)]
            /\ lock' = lock
       ELSE /\ th_pc' = [th_pc EXCEPT ![t].at = "raised"]
            /\ lock' = [lock EXCEPT ![m] = 0]
    /\ UNCHANGED <<rotatorFrame, proxy_list, rotatorVars, drawn>>

\* self.current_index = (self.current_index + 1) % len(pool); return entry,
\* which leaves the with block and releases the lock
\* (a list emptied in the meantime makes the modulo raise
\* ZeroDivisionError)
Advance(t) ==
    LET m == th_pc[t].m IN
    /\ th_pc[t].at = "advance"
    /\ lock' = [lock EXCEPT ![m] = 0]
    /\ IF PoolSize(m) = 0
       THEN /\ th_pc' = [th_pc EXCEPT ![t].at = "raised"]
            /\ UNCHANGED <<rotatorVars, drawn>>
       ELSE /\ proxy_index' = IF m = "proxy"
                              THEN ProxyAfterDraw(proxy_index)
                              ELSE proxy_index
            /\ ua_index' = IF m = "ua" THEN UaAfterDraw(ua_index)
                           ELSE ua_index
            /\ drawn' = [drawn EXCEPT ![m][th_pc[t].got] = @ + 1]
            /\ th_pc' = [th_pc EXCEPT ![t] = Idle]
    /\ UNCHANGED <<rotatorFrame, proxy_list>>

\* the members of a list
Range(l) == {l[k] : k \in 1..Len(l)}

\* add_proxy, lines 145-148
AddProxy(p) ==
    /\ p \notin Range(proxy_list)
    /\ proxy_list' = Append(proxy_list, p)
    /\ UNCHANGED <<rotatorFrame, rotatorVars, th_pc, lock, drawn>>

\* remove_proxy, lines 150-153: the cursor is left where it was
RemoveProxy(p) ==
    /\ p \in Range(proxy_list)
    /\ proxy_list' = SelectSeq(proxy_list, LAMBDA x : x # p)
    /\ UNCHANGED <<rotatorFrame, rotatorVars, th_pc, lock, drawn>>

NextRotator ==
    \/ \E t \in Threads, m \in Managers : GetCall(t, m)
    \/ \E t \in Threads : TakeLock(t)
    \/ \E t \in Threads : ReadEntry(t)
    \/ \E t \in Threads : Advance(t)

RotatorPools == UNION {[1..k -> {"p"}] : k \in 0..MaxProxies}
RotatorConfigs ==
    {c \in Configs : /\ c.max_concurrent_requests = MaxWorkers
                     /\ c.request_delay = 1 /\ c.max_retries = 0
                     /\ c.retry_delay = 1 /\ ~c.respect_robots_txt
                     /\ c.user_agent_rotation /\ c.max_pages = 0}
InitRotator == InitWith(RotatorConfigs, {<<>>}, RotatorPools, MaxThreads)
SpecRotator == InitRotator /\ [][NextRotator]_vars

\* one ProxyManager whose pool the caller edits while threads draw from it
ProxyNames == {"p1", "p2", "p3"}
NextProxyManager ==
    \/ \E t \in Threads : GetCall(t, "proxy")
    \/ \E t \in Threads : TakeLock(t)
    \/ \E t \in Threads : ReadEntry(t)
    \/ \E t \in Threads : Advance(t)
    \/ \E p \in ProxyNames : AddProxy(p)
    \/ \E p \in ProxyNames : RemoveProxy(p)

InitProxyManager == InitWith(RotatorConfigs, {<<>>}, {<<>>}, MaxThreads)
SpecProxyManager == InitProxyManager /\ [][NextProxyManager]_vars

\* the clock goes on past the horizon of the model for as long as a worker
\* is in a time.sleep that has not ended
TickAsleep ==
    /\ now >= MaxTime
    /\ \E i \in Tasks : pc[i] \in {"rl_sleep", "backoff"} /\ wake[i] > now
    /\ now' = now + 1
    /\ admitted' = SelectSeq(admitted,
                        LAMBDA t : (now + 1) - t < config.request_delay)
    /\ UNCHANGED <<frameVars, requests, nadm, robotsVars, rotatorVars, pc,
                   attempt, wake, nreq, sleeps, results,
                   self_results, phase, asyncVars>>

\* the steps of the worker thread that runs task i
WorkerStep(i) ==
    /\ i \in Tasks
    /\ \/ StartTask(i)
       \/ Acquire(i)
       \/ RateLimitSleep(i)
       \/ RateLimitContinue(i)
       \/ CheckRobots(i)
       \/ RobotsRead(i)
       \/ Reply(i)
       \/ BackoffWake(i)

\* scrape_urls alone, under a scheduler that keeps every worker thread
\* running, a clock that advances, and a main thread that returns
NextLive ==
    \/ \E i \in Tasks : StartTask(i)
    \/ \E i \in Tasks : Acquire(i)
    \/ \E i \in Tasks : RateLimitSleep(i)
    \/ \E i \in Tasks : RateLimitContinue(i)
    \/ \E i \in Tasks : CheckRobots(i)
    \/ \E i \in Tasks : RobotsRead(i)
    \/ \E i \in Tasks : Reply(i)
    \/ \E i \in Tasks : BackoffWake(i)
    \/ PoolReturn
    \/ Tick
    \/ TickAsleep

LiveConfigs ==
    {c \in Configs : c.user_agent_rotation /\ c.max_pages = MaxUrls}
InitLive ==
    InitWith(LiveConfigs, BatchesOf({"ok", "unavail", "slow"}), {<<>>}, 0)
Fairness ==
    /\ \A i \in 1..MaxUrls : WF_vars(WorkerStep(i))
    /\ WF_vars(PoolReturn)
    /\ WF_vars(Tick)
    /\ WF_vars(TickAsleep)
SpecLive == InitLive /\ [][NextLive]_vars /\ Fairness

----------------------------------------------------------------------------
(* Worker threads of the pool running _make_request, with the with-blocks *)
(* of the limiter and of the two managers as steps of their own           *)

\* where a worker thread is in _make_request
WorkerSteps == {"acquire", "wait_time", "rl_sleep", "robots", "robots_read",
                "get_user_agent", "get_proxy", "request", "backoff"}

\* the calls that enter a with self.lock block
LockedCalls == {"acquire", "wait_time", "get_user_agent", "get_proxy"}

\* the URLs the worker threads fetch
WorkerUrls == {"ok", "unavail", "deny"}

\* line 270: an iteration of the retry loop begins with rate_limiter.acquire
AtAcquire(u, a) ==
    [at |-> "acquire", m |-> "limiter", got |-> 0, attempt |-> a, url |-> u]

\* lines 289-292: _get_proxy_config (get_proxy returns None for an empty
\* list before it touches its lock), then session.request
AfterUserAgent(w) ==
    IF proxy_list = <<>> THEN [w EXCEPT !.at = "request"]
    ELSE [w EXCEPT !.at = "get_proxy", !.m = "proxy"]

\* lines 284-286: the user agent is drawn when rotation is on
AfterCheck(w) ==
    IF config.user_agent_rotation
    THEN [w EXCEPT !.at = "get_user_agent", !.m = "ua"]
    ELSE AfterUserAgent(w)

\* lines 306-311: the except clause, a backoff sleep or the re-raise
Failed(w) ==
    IF w.attempt < config.max_retries
    THEN [w EXCEPT !.at = "backoff", !.got = now + Backoff(w.attempt)]
    ELSE Idle

\* line 270: the for loop takes its next value or is exhausted
Looped(w) ==
    IF w.attempt < config.max_retries THEN AtAcquire(w.url, w.attempt + 1)
    ELSE Idle

workerFrame == <<config, urls, proxy_list, drawn, files, saved, ret,
                 stopped, now, poolVars, phase, asyncVars>>

\* a worker thread takes a URL off the queue and enters _make_request
WStart(t, u) ==
    /\ th_pc[t].at = "idle"
    /\ th_pc' = [th_pc EXCEPT ![t] = AtAcquire(u, 0)]
    /\ UNCHANGED <<workerFrame, lock, limiterVars, robotsVars, rotatorVars>>

\* with self.lock: the thread blocks until the lock is free, then holds it
WTakeLock(t) ==
    /\ th_pc[t].at \in LockedCalls
    /\ lock[th_pc[t].m] # t
    /\ LockFree(th_pc[t].m)
    /\ lock' = [lock EXCEPT ![th_pc[t].m] = t]
    /\ UNCHANGED <<workerFrame, th_pc, limiterVars, robotsVars, rotatorVars>>

\* lines 104-115: the body of acquire(), its return leaves the with block
WAcquire(t) ==
    /\ th_pc[t].at = "acquire"
    /\ lock["limiter"] = t
    /\ requests' = AfterAcquire(requests, now)
    /\ admitted' = IF Admits(requests, now) THEN Append(admitted, now)
                   ELSE admitted
    /\ nadm' = IF Admits(requests, now) THEN nadm + 1 ELSE nadm
    /\ lock' = [lock EXCEPT !["limiter"] = 0]
    /\ th_pc' = [th_pc EXCEPT ![t].at = IF Admits(requests, now)
                                        THEN "robots" ELSE "wait_time"]
    /\ UNCHANGED <<workerFrame, robotsVars, rotatorVars>>

\* a wait_time() whose caller sleeps before the with block is left
WWaitTime_SleepsInside(t) ==
    /\ th_pc[t].at = "wait_time"
    /\ lock["limiter"] = t
    /\ th_pc' = [th_pc EXCEPT ![t].at = "rl_sleep",
                              ![t].got = now + WaitTime(requests, now)]
    /\ UNCHANGED <<workerFrame, lock, limiterVars, robotsVars, rotatorVars>>

\* lines 119-125 and 273-275: the body of wait_time(), its return leaves
\* the with block, and the caller goes to sleep for the value returned
WWaitTime(t) ==
    /\ th_pc[t].at = "wait_time"
    /\ lock["limiter"] = t
    /\ lock' = [lock EXCEPT !["limiter"] = 0]
    /\ th_pc' = [th_pc EXCEPT ![t].at = "rl_sleep",
                              ![t].got = now + WaitTime(requests, now)]
    /\ UNCHANGED <<workerFrame, limiterVars, robotsVars, rotatorVars>>

\* lines 275-276 and 309: time.sleep returns and the loop goes round
WSleepOver(t) ==
    /\ th_pc[t].at \in {"rl_sleep", "backoff"}
    /\ now >= th_pc[t].got
    /\ th_pc' = [th_pc EXCEPT ![t] = Looped(@)]
    /\ UNCHANGED <<workerFrame, lock, limiterVars, robotsVars, rotatorVars>>

\* lines 237-245: _check_robots_txt answers at once or starts rp.read()
WCheckRobots(t) ==
    LET w == th_pc[t] IN
    /\ w.at = "robots"
    /\ IF RobotsEnabled /\ ~Cached(Origin(w.url))
       THEN /\ th_pc' = [th_pc EXCEPT ![t].at = "robots_read"]
            /\ robots_reads' = [robots_reads EXCEPT ![Origin(w.url)] = @ + 1]
       ELSE /\ th_pc' = [th_pc EXCEPT ![t] =
                            IF RobotsAllowed(w.url, "raise")
                            THEN AfterCheck(w) ELSE Failed(w)]
            /\ UNCHANGED robots_reads
    /\ UNCHANGED <<workerFrame, lock, limiterVars, robots_cache,
                   robots_writes, rotatorVars>>

\* lines 249-255: rp.read() returns and the parser is cached, or it raises
WRobotsRead(t) ==
    LET w == th_pc[t] IN
    /\ w.at = "robots_read"
    /\ \E outcome \in RobotsReadOutcomes(Origin(w.url)) :
        IF outcome = "raise"
        THEN /\ UNCHANGED <<robots_cache, robots_writes>>
             /\ th_pc' = [th_pc EXCEPT ![t] = AfterCheck(w)]
        ELSE /\ robots_cache' = CachePut(robots_cache, Origin(w.url), outcome)
             /\ robots_writes' =
                    [robots_writes EXCEPT ![Origin(w.url)] = @ + 1]
             /\ th_pc' = [th_pc EXCEPT ![t] =
                             IF EntryAllows(outcome, w.url)
                             THEN AfterCheck(w) ELSE Failed(w)]
    /\ UNCHANGED <<workerFrame, lock, limiterVars, robots_reads,
                   rotatorVars>>

\* lines 186-192: the body of get_user_agent, left on return
WGetUserAgent(t) ==
    /\ th_pc[t].at = "get_user_agent"
    /\ lock["ua"] = t
    /\ ua_index' = UaAfterDraw(ua_index)
    /\ lock' = [lock EXCEPT !["ua"] = 0]
    /\ th_pc' = [th_pc EXCEPT ![t] = AfterUserAgent(@)]
    /\ UNCHANGED <<workerFrame, limiterVars, robotsVars, proxy_index>>

\* lines 139-143: the body of get_proxy, left on return
WGetProxy(t) ==
    /\ th_pc[t].at = "get_proxy"
    /\ lock["proxy"] = t
    /\ proxy_index' = ProxyAfterDraw(proxy_index)
    /\ lock' = [lock EXCEPT !["proxy"] = 0]
    /\ th_pc' = [th_pc EXCEPT ![t].at = "request"]
    /\ UNCHANGED <<workerFrame, limiterVars, robotsVars, ua_index>>

\* lines 292-311: session.request returns or raises, raise_for_status;
\* the response is returned or the except clause runs
WReply(t) ==
    LET w == th_pc[t] IN
    /\ w.at = "request"
    /\ \E r \in TransportReplies(w.url) :
        th_pc' = [th_pc EXCEPT ![t] =
                     IF r.kind = "http" /\ ~RaisesForStatus(r) THEN Idle
                     ELSE Failed(w)]
    /\ UNCHANGED <<workerFrame, lock, limiterVars, robotsVars, rotatorVars>>

NextLocks ==
    \/ \E t \in Threads, u \in WorkerUrls : WStart(t, u)
    \/ \E t \in Threads : WTakeLock(t)
    \/ \E t \in Threads : WAcquire(t)
    \/ \E t \in Threads : WWaitTime(t)
    \/ \E t \in Threads : WSleepOver(t)
    \/ \E t \in Threads : WCheckRobots(t)
    \/ \E t \in Threads : WRobotsRead(t)
    \/ \E t \in Threads : WGetUserAgent(t)
    \/ \E t \in Threads : WGetProxy(t)
    \/ \E t \in Threads : WReply(t)
    \/ Tick

LocksPools == {<<>>, <<"p", "p">>}
LocksConfigs ==
    {c \in Configs : /\ c.max_concurrent_requests = 1
                     /\ c.max_retries <= 1 /\ c.max_pages = 0}
InitLocks == InitWith(LocksConfigs, {<<>>}, LocksPools, MaxThreads)
SpecLocks == InitLocks /\ [][NextLocks]_vars

TypeOK ==
    /\ now \in 0..MaxTime
    /\ phase \in {"pool", "async", "finished"}
    /\ ua_index \in 0..(NumUserAgents - 1)
    /\ proxy_index \in Nat
    /\ \A m \in Locks : lock[m] \in {0} \cup DOMAIN th_pc
    /\ \A t \in DOMAIN th_pc :
          th_pc[t].at \in {"idle", "lock", "read", "advance", "raised"}
                            \cup WorkerSteps
    /\ DOMAIN robots_cache \subseteq {"site", "other"}
    /\ nadm \in Nat

----------------------------------------------------------------------------
(* Properties *)

\* the backoff sleeps of a task, in order
BackoffsOf(i) == SelectSeq(sleeps[i], LAMBDA e : e.kind = "backoff")
\* the rate-limit sleeps of a task, in order
RateSleepsOf(i) == SelectSeq(sleeps[i], LAMBDA e : e.kind = "rate")

\* a URL the policy check denies
Denied(i) == config.respect_robots_txt /\ ~CanFetch(urls[i])

\* the record of task i in the list scrape_urls returns
RecordsOf(i) == {k \in 1..Len(results) : results[k].task = i}

\* what a caller sees of a record: the fields of ScrapingResult
Fields(r) == [url |-> r.url, status_code |-> r.status_code,
              success |-> r.success, error |-> r.error, data |-> r.data]

\* how many records of list rs show the fields f
CountOf(rs, f) == Cardinality({k \in 1..Len(rs) : Fields(rs[k]) = f})

\* C1: at every moment, the trailing window of length request_delay holds
\* at most max_concurrent_requests timestamps for which acquire() returned
\* True.  (A window ending in the past was the trailing window then, and no
\* later admission carries a timestamp inside it.)
C1_WindowBound ==
    Cardinality({k \in 1..Len(admitted) :
                    now - admitted[k] < config.request_delay})
        <= config.max_concurrent_requests

\* the window is full, the clock has moved and a caller has been refused
C1_Witness ==
    /\ now > 0
    /\ Len(admitted) = config.max_concurrent_requests
    /\ \E k \in 1..Len(admitted) : admitted[k] > 0
    /\ \E i \in Tasks : pc[i] = "wait_time"

\* C2: no URL is issued more than max_retries + 1 network requests, up to
\* and at the moment it is recorded as failed.
C2_AttemptBound ==
    \A i \in Tasks : nreq[i] <= config.max_retries + 1

\* a URL recorded as failed after max_retries + 1 requests, retries included
C2_Witness ==
    \E i \in Tasks :
        /\ config.max_retries >= 1
        /\ pc[i] = "done"
        /\ nreq[i] = config.max_retries + 1
        /\ \E k \in RecordsOf(i) : ~results[k].success

\* C3: scrape_urls returns exactly one record for each of the first
\* max_pages URLs of the batch, one per occurrence, whatever failed; and a
\* record once collected is never removed or changed.
C3_OneRecordPerUrl ==
    /\ [](/\ \A i \in Tasks :
                Cardinality(RecordsOf(i)) =
                    (IF i \in Submitted /\ pc[i] = "done" THEN 1 ELSE 0)
          /\ \A k \in 1..Len(results) : results[k].url = urls[results[k].task]
          /\ phase # "pool" =>
                Len(results) = Min(Len(urls), config.max_pages))
    /\ [][/\ Len(results') >= Len(results)
          /\ \A k \in 1..Len(results) : results'[k] = results[k]]_vars

\* scrape_urls has returned for a batch of twice the same URL, one
\* occurrence failed and the other succeeded
C3_Witness ==
    /\ phase # "pool"
    /\ Len(results) = 2
    /\ urls[1] = urls[2]
    /\ results[1].success
    /\ ~results[2].success

\* C4: with a deterministic transport, once both modes have run the batch,
\* scrape_urls and scrape_urls_async have returned the same records up to
\* order.
C4_ModesAgree ==
    (phase = "finished" /\ \A i \in Tasks : urls[i] # "flaky") =>
        \A f \in {Fields(results[k]) : k \in 1..Len(results)}
                 \cup {Fields(aresults[k]) : k \in 1..Len(aresults)} :
            CountOf(results, f) = CountOf(aresults, f)

\* error is present exactly when success is false
ErrorIffFailure(r) == (r.error # NoError) <=> ~r.success

\* C5: every record of scrape_url and of scrape_url_async has an error
\* exactly when its success flag is false.
C5_ErrorIffFailure ==
    /\ \A k \in 1..Len(results) : ErrorIffFailure(results[k])
    /\ \A i \in Tasks : arec[i] # NoRecord => ErrorIffFailure(arec[i])
    /\ \A k \in 1..Len(aresults) : ErrorIffFailure(aresults[k])

\* both modes have produced a failed record and a successful one
C5_Witness ==
    /\ phase = "finished"
    /\ \E k \in 1..Len(results) : results[k].success
    /\ \E k \in 1..Len(results) : ~results[k].success
    /\ \E k \in 1..Len(aresults) : aresults[k].success
    /\ \E k \in 1..Len(aresults) : ~aresults[k].success

\* C6: a URL the policy check denies is attempted once: no backoff sleep
\* follows the denial and the loop does not go round again.
C6_PolicyBlockedOnce ==
    \A i \in Tasks :
        Denied(i) => (BackoffsOf(i) = <<>> /\ pc[i] # "backoff")

\* C7: a URL answered 404 is issued one network request and no backoff
\* sleep follows it.
C7_ClientErrorTerminal ==
    \A i \in Tasks :
        urls[i] = "nf" => (nreq[i] <= 1 /\ BackoffsOf(i) = <<>>)

\* C8: a rate-limit refusal does not use up an attempt: the loop variable
\* counts failed attempts only, so it never exceeds the number of backoff
\* sleeps.
C8_RefusalKeepsAttempt ==
    \A i \in Tasks : attempt[i] <= Len(BackoffsOf(i))

\* the backoff delays of a task never decrease
NonDecreasing(s) == \A k \in 1..(Len(s) - 1) : s[k].d <= s[k + 1].d

\* C9: a URL that times out on every request ends after exactly
\* max_retries + 1 requests, with non-decreasing delays, as a failed record
\* with a timeout error.
C9_AlwaysTimeout ==
    \A i \in Tasks :
        (urls[i] = "slow" /\ pc[i] = "done") =>
            /\ nreq[i] = config.max_retries + 1
            /\ NonDecreasing(BackoffsOf(i))
            /\ \A k \in RecordsOf(i) :
                  ~results[k].success /\ results[k].error = "Timeout"

\* C10: for a persistent 503 the k-th failed request (k from 0) is followed
\* by a sleep of retry_delay * 2^k, none follows the last one, and with
\* max_retries = 2 and retry_delay = 1 the URL ends failed after 3 requests
\* and sleeps of 1 and 2.
C10_BackoffSchedule ==
    \A i \in Tasks :
        urls[i] = "unavail" =>
            /\ \A k \in 1..Len(BackoffsOf(i)) :
                  /\ BackoffsOf(i)[k].d = config.retry_delay * Pow2(k - 1)
                  /\ BackoffsOf(i)[k].after = k
            /\ pc[i] = "done" =>
                  /\ nreq[i] = config.max_retries + 1
                  /\ Len(BackoffsOf(i)) = config.max_retries
                  /\ \A k \in RecordsOf(i) : ~results[k].success
                  /\ (config.max_retries = 2 /\ config.retry_delay = 1) =>
                        (nreq[i] = 3 /\ BackoffsOf(i)[1].d = 1
                                     /\ BackoffsOf(i)[2].d = 2)

\* C11: _make_request never finishes without a response and without an
\* error: no record stems from a call that returned None.
C11_ResponseOrError ==
    \A k \in 1..Len(results) : results[k].error # "NoneType"

\* C12: in both modes no record has success=true together with a 4xx or 5xx
\* status code.
C12_ErrorStatusFails ==
    /\ \A k \in 1..Len(results) :
          ~(results[k].success /\ results[k].status_code >= 400)
    /\ \A i \in Tasks :
          arec[i] # NoRecord =>
              ~(arec[i].success /\ arec[i].status_code >= 400)
    /\ \A k \in 1..Len(aresults) :
          ~(aresults[k].success /\ aresults[k].status_code >= 400)

\* the network requests issued so far by scrape_urls
PoolRequests == LET RECURSIVE Sum(_)
                    Sum(n) == IF n = 0 THEN 0 ELSE nreq[n] + Sum(n - 1)
                IN Sum(Len(urls))

\* the tasks of scrape_urls_async whose session.get has gone out
AsyncRequested ==
    {i \in Tasks : \/ apc[i] = "in_flight"
                   \/ apc[i] = "done" /\ arec[i].error # "Blocked by robots.txt"}

\* C13: every network request of either mode has an admission of its own:
\* the requests issued never outnumber the times acquire() returned True.
C13_RequestsAdmitted ==
    PoolRequests + Cardinality(AsyncRequested) <= nadm

LookupReturned(i) ==
    \/ nreq[i] >= 1
    \/ apc[i] \in {"connecting", "in_flight", "done"}

\* C18: with the check enabled, once a lookup for an origin has returned
\* the origin has a cache entry, and in a sequential run (one worker) the
\* robots.txt of an origin is read at most once.
C18_CachedAfterFirstLookup ==
    config.respect_robots_txt =>
        /\ \A i \in Tasks : LookupReturned(i) => Cached(Origin(urls[i]))
        /\ config.max_concurrent_requests = 1 =>
              \A o \in DOMAIN robots_reads : robots_reads[o] <= 1

\* C19: at most one entry is ever written per origin, and an entry of the
\* cache is never removed or replaced.
C19_CacheAppendOnly ==
    /\ [](\A o \in DOMAIN robots_writes : robots_writes[o] <= 1)
    /\ [][\A o \in DOMAIN robots_cache :
            /\ o \in DOMAIN robots_cache'
            /\ robots_cache'[o] = robots_cache[o]]_vars

\* C20: a robots.txt that is absent or cannot be fetched never blocks a URL:
\* "x", which the rules of its origin allow, is never recorded as blocked.
C20_PolicyFailureAllows ==
    /\ \A k \in 1..Len(results) :
          results[k].url = "x" => results[k].error # "Blocked by robots.txt"
    /\ \A i \in Tasks :
          (arec[i] # NoRecord /\ arec[i].url = "x") =>
              arec[i].error # "Blocked by robots.txt"

\* C17: a rotation cursor moves only when its rotation is enabled: the
\* proxy cursor stays put while proxy_rotation is off, the user-agent cursor
\* stays put while user_agent_rotation is off.
C17_RotationOnlyWhenEnabled ==
    [][/\ ~config.proxy_rotation => proxy_index' = proxy_index
       /\ ~config.user_agent_rotation => ua_index' = ua_index]_vars

\* C15: of the URLs of a burst, no more than max_requests are admitted in
\* one window, and every fetch is admitted in the end: a fetch that is over
\* has sent at least one request.
C15_BurstAllAdmitted ==
    /\ Len(requests) <= config.max_concurrent_requests
    /\ \A i \in Tasks : pc[i] = "done" => nreq[i] >= 1

AllRecords ==
    {results[k] : k \in 1..Len(results)}
        \cup {arec[i] : i \in {j \in Tasks : arec[j] # NoRecord}}
        \cup {aresults[k] : k \in 1..Len(aresults)}

\* C21: with respect_robots_txt off, _check_robots_txt answers True for
\* every URL, reads no robots.txt and leaves robots_cache as it was.
C21_DisabledCheckIsInert ==
    ~config.respect_robots_txt =>
        /\ robots_cache = <<>>
        /\ \A o \in DOMAIN robots_reads :
              robots_reads[o] = 0 /\ robots_writes[o] = 0
        /\ \A r \in AllRecords : r.error # "Blocked by robots.txt"

\* with the check off, a URL the rules deny has been fetched in both modes
C21_Witness ==
    /\ ~config.respect_robots_txt
    /\ \E k \in 1..Len(results) :
          results[k].url = "deny" /\ results[k].success
    /\ \E k \in 1..Len(aresults) :
          aresults[k].url = "deny" /\ aresults[k].success

\* the keys of a data mapping
KeysOf(d) == {p[1] : p \in d}

\* the extractors that do not raise on u
Passing(u) ==
    {Extractors[k] : k \in {j \in 1..Len(Extractors) :
                                ~ExtractorRaises(Extractors[j], u)}}

\* C22: an extractor that raises does not fail the record: a record of a
\* fetched document is a success without error whose data holds the keys
\* of the extractors that did not raise, those after the failing one
\* included, and no key of the failing one; a failed record of such a URL
\* shows a fetch error.
C22_ExtractorFailureSkipped ==
    \A r \in AllRecords :
        /\ r.success => r.error = NoError /\ KeysOf(r.data) = Passing(r.url)
        /\ ~r.success => r.error # "ExtractorError"

\* a document on which the second of three extractors raises has been
\* fetched in both modes
C22_Witness ==
    /\ \E k \in 1..Len(results) :
          /\ results[k].url = "flaky" /\ results[k].success
          /\ KeysOf(results[k].data) = {"title", "text"}
    /\ \E k \in 1..Len(aresults) :
          /\ aresults[k].url = "flaky" /\ aresults[k].success
          /\ KeysOf(aresults[k].data) = {"title", "text"}

\* C23: a URL whose fetch fails (a 404, a 503, a timeout) has a record
\* with success = False, an error and empty data; no failed record holds
\* extractor output.
C23_FailedRecordEmpty ==
    \A r \in AllRecords :
        /\ r.url \in {"nf", "unavail", "slow"} => ~r.success
        /\ ~r.success => r.error # NoError /\ r.data = {}

\* C24: only the first max_pages URLs of the batch are dispatched: a URL
\* further down is never started, fetched or recorded, and when both calls
\* are over every URL among the first max_pages has its record.
C24_MaxPagesTruncation ==
    /\ \A i \in Tasks :
          i > config.max_pages =>
              /\ pc[i] = "queued" /\ apc[i] = "pending" /\ nreq[i] = 0
              /\ \A r \in AllRecords : r.task # i
    /\ phase = "finished" =>
          \A i \in Tasks :
              i <= config.max_pages =>
                  /\ \E k \in 1..Len(results) : results[k].task = i
                  /\ \E k \in 1..Len(aresults) : aresults[k].task = i

\* a batch longer than max_pages has been run to the end
C24_Witness ==
    /\ phase = "finished"
    /\ config.max_pages >= 1
    /\ Len(urls) > config.max_pages
    /\ Len(results) = config.max_pages
    /\ Len(aresults) = config.max_pages

\* the artifacts that exist
Written == {f \in DOMAIN files : files[f].exists}

\* C25: save_results under an output_format that is none of json, csv and
\* sqlite fails with an error the caller sees and writes no artifact.
C25_UnsupportedFormatFails ==
    (config.output_format \notin {"json", "csv", "sqlite"}
        /\ saved.calls > 0 /\ saved.batch # <<>>)
    => (saved.raised /\ Written = {})

\* a row of scraping_results read back: the fields of the record it holds
SqlRecord(row) ==
    [url |-> row.url, status_code |-> row.status_code,
     success |-> (row.success = 1),
     error |-> IF row.error = "NULL" THEN NoError ELSE row.error,
     data |-> JsonLoads(row.data)]

\* C26: after a save in the sqlite format the table read back is the saved
\* batch: one row per record, in order, with url, status_code, success and
\* error equal to the record's and data equal once deserialized.
C26_SqliteRoundTrip ==
    (config.output_format = "sqlite" /\ saved.calls > 0)
    => /\ Len(files["db"].rows) = Len(saved.batch)
       /\ \A k \in 1..Len(saved.batch) :
             SqlRecord(files["db"].rows[k]) = Fields(saved.batch[k])

\* the timestamps of list reqs younger than the window at time t
Young(reqs, t) == {k \in 1..Len(reqs) : t - reqs[k] < config.request_delay}

\* C27: acquire() returns True exactly when fewer than max_requests
\* recorded timestamps are younger than time_window; it then records the
\* current time, and otherwise records nothing.
C27_AcquireContract ==
    ret.op = "acquire" =>
        LET y == Cardinality(Young(ret.before, ret.at)) IN
        /\ ret.ok <=> y < config.max_concurrent_requests
        /\ ret.ok => /\ Len(ret.after) = y + 1
                     /\ ret.after[Len(ret.after)] = ret.at
        /\ ~ret.ok => /\ Len(ret.after) = y
                      /\ \A k \in 1..Len(ret.after) :
                            \E j \in Young(ret.before, ret.at) :
                                ret.after[k] = ret.before[j]

\* a call refused after the clock has moved, the window full of timestamps
\* of different ages
C27_Witness ==
    /\ ret.op = "acquire" /\ ~ret.ok /\ ret.at > 0
    /\ \E j, k \in 1..Len(ret.before) : ret.before[j] # ret.before[k]

\* C28: wait_time() returns max(0, time_window - (now - oldest)), 0 when no
\* timestamp is recorded, never a negative value, and leaves the recorded
\* timestamps as they were.
C28_WaitTimeContract ==
    ret.op = "wait_time" =>
        /\ ret.val >= 0
        /\ ret.after = ret.before
        /\ ret.before = <<>> => ret.val = 0
        /\ ret.before # <<>> =>
              \E k \in 1..Len(ret.before) :
                  /\ \A j \in 1..Len(ret.before) :
                        ret.before[k] <= ret.before[j]
                  /\ LET left == config.request_delay
                                    - (ret.at - ret.before[k])
                     IN ret.val = IF left > 0 THEN left ELSE 0

\* the oldest timestamp left the window before wait_time() was called
C28_Witness ==
    /\ ret.op = "wait_time" /\ ret.before # <<>> /\ ret.val = 0
    /\ \E k \in 1..Len(ret.before) :
          config.request_delay - (ret.at - ret.before[k]) < 0

\* C30: whatever add_proxy, remove_proxy and get_proxy calls came before,
\* get_proxy does not raise, and while the pool is non-empty the cursor is
\* an index of the pool.
C30_CursorInPool ==
    /\ \A t \in Threads : th_pc[t].at # "raised"
    /\ proxy_list # <<>> => proxy_index < Len(proxy_list)

\* C29: once the stop signal has been raised no queued URL is started, and
\* every fetch that was running at the signal still ends with its record.
C29_CooperativeStop ==
    /\ [][stopped.on =>
            \A i \in Tasks : pc[i] = "queued" => pc'[i] = "queued"]_vars
    /\ [](stopped.on =>
            \A i \in stopped.running :
                pc[i] = "done" => RecordsOf(i) # {})

\* the positions of the extractors that emit key k for u without raising
Emitters(k, u) ==
    {j \in 1..Len(Extractors) :
        /\ ~ExtractorRaises(Extractors[j], u)
        /\ \E q \in ExtractorOut(Extractors[j], u) : q[1] = k}

\* C34: the outputs of the extractors are merged key by key in the order
\* of the list: the data of a record holds one value per key, the value
\* emitted by the last extractor of the list that emits the key.
C34_LaterExtractorWins ==
    \A r \in AllRecords :
        r.success =>
            \A p \in r.data :
                /\ \A q \in r.data : q[1] = p[1] => q = p
                /\ \E j \in Emitters(p[1], r.url) :
                      /\ p \in ExtractorOut(Extractors[j], r.url)
                      /\ \A l \in Emitters(p[1], r.url) : l <= j

\* a record whose "title" was emitted by the first extractor and then by
\* the third, and whose "links" has one emitter only
C34_Witness ==
    \E k \in 1..Len(results) :
        /\ results[k].success /\ results[k].url = "ok"
        /\ <<"title", <<"text", "ok">>>> \in results[k].data
        /\ <<"links", <<"links", "ok">>>> \in results[k].data

\* C35: once both calls are over, self.results holds the records of the
\* batch scrape_urls returned and of the batch scrape_urls_async returned.
C35_SelfResultsHoldBatches ==
    phase = "finished" => self_results = results \o aresults

\* C36: a call of save_results that is given a list persists that list and
\* nothing else: given the empty list, its first call writes no file, and
\* self.results is what it persists only when it is given no list.
C36_ExplicitListPersisted ==
    (saved.calls > 0 /\ saved.given) =>
        /\ saved.batch = saved.arg
        /\ (saved.arg = <<>> /\ saved.calls = 1) => Written = {}

\* C37: after the same batch was saved twice to the same sqlite file the
\* table holds one row per record of the batch.
C37_SqliteSaveIdempotent ==
    (/\ config.output_format = "sqlite"
     /\ saved.calls = 2
     /\ saved.prev = saved.batch)
    => Len(files["db"].rows) = Len(saved.batch)

\* C33: when acquire() returned False at time t, wait_time() read at t
\* returned w and no caller used the limiter since, the acquire() called at
\* t + w returns True.
C33_WaitThenAdmitted ==
    [][(/\ ret.op = "wait_time"
        /\ ret.prev[1].op = "acquire" /\ ~ret.prev[1].ok
        /\ ret.prev[1].at = ret.at
        /\ ret'.op = "acquire"
        /\ ret'.at = ret.at + ret.val)
       => ret'.ok]_vars

\* a refusal, the wait read at the same instant, a positive one, and the
\* call made when it was over, admitted
C33_Witness ==
    /\ ret.op = "acquire" /\ ret.ok
    /\ ret.prev[1].op = "wait_time" /\ ret.prev[1].val > 0
    /\ ret.prev[2].op = "acquire" /\ ~ret.prev[2].ok
    /\ ret.prev[2].at = ret.prev[1].at
    /\ ret.at = ret.prev[1].at + ret.prev[1].val

\* the tasks whose policy check is running in the worker pool
PoolChecking == {i \in Tasks : pc[i] \in {"robots", "robots_read"}}

\* the tasks of scrape_urls_async whose policy check has run
AsyncChecked == {i \in Tasks : apc[i] # "pending"}

\* every policy check that has run was preceded by an admission of its own
ChecksAdmitted ==
    Cardinality(PoolChecking) + PoolRequests + Cardinality(AsyncChecked)
        <= nadm

\* a URL the policy denies has issued no network request in either mode
DeniedNeverRequests ==
    \A i \in Tasks :
        Denied(i) =>
            /\ nreq[i] = 0
            /\ apc[i] \notin {"connecting", "in_flight"}
            /\ apc[i] = "done" => arec[i].error = "Blocked by robots.txt"

\* a cursor moves only in the step in which a URL the policy allows goes
\* from its policy check to its network request
DrawsAfterCheck ==
    (ua_index' # ua_index \/ proxy_index' # proxy_index) =>
        \E i \in Tasks :
            /\ ~Denied(i)
            /\ \/ pc[i] \in {"robots", "robots_read"} /\ pc'[i] = "in_flight"
                  /\ nreq'[i] = nreq[i] + 1
               \/ apc[i] = "pending" /\ apc'[i] = "connecting"

\* C32: an attempt runs the admission, then the policy check, then the
\* draw, then the request: no policy check runs without an admission, a
\* cursor moves only when an allowed URL goes on to its request, and a
\* denied URL moves no cursor and issues no request.
C32_AttemptOrder ==
    /\ [](ChecksAdmitted /\ DeniedNeverRequests)
    /\ [][DrawsAfterCheck]_vars

\* what is left of C32 when the admission is asked of the worker pool only
C32_PoolOrder ==
    /\ [](phase = "pool" => ChecksAdmitted)
    /\ [](DeniedNeverRequests)
    /\ [][DrawsAfterCheck]_vars

\* the worker threads asleep or waiting for the network
Suspended ==
    {t \in Threads :
        th_pc[t].at \in {"rl_sleep", "backoff", "request", "robots_read"}}

\* C31: a worker thread that sleeps for a rate-limit wait or a backoff, or
\* waits for a network reply, holds no lock, so a thread that waits to
\* enter acquire(), wait_time(), get_proxy() or get_user_agent() never
\* waits for a thread that sleeps or is in a request.
C31_NoLockWhileSuspended ==
    /\ \A t \in Suspended : \A m \in Locks : lock[m] # t
    /\ \A t \in Threads :
          (th_pc[t].at \in LockedCalls /\ lock[th_pc[t].m] \notin {0, t})
              => lock[th_pc[t].m] \notin Suspended

\* one thread sleeps for its rate-limit wait while the other one holds the
\* lock of the limiter, inside acquire()
C31_Witness ==
    \E t, u \in Threads :
        /\ th_pc[t].at = "rl_sleep" /\ now < th_pc[t].got
        /\ th_pc[u].at = "acquire" /\ lock["limiter"] = u

\* C38: scrape_urls returns: no retry loop goes through more than
\* max_retries + 1 rate-limit waits and requests, nor more than max_retries
\* backoff sleeps, and in the end the call is over with a record for every
\* URL that was submitted.
C38_ScrapeUrlsTerminates ==
    /\ [](\A i \in Tasks :
            /\ nreq[i] + Len(RateSleepsOf(i)) <= config.max_retries + 1
            /\ Len(BackoffsOf(i)) <= config.max_retries)
    /\ <>(phase # "pool" /\ \A i \in Submitted : RecordsOf(i) # {})

\* the call is over after a worker slept for the limiter and another one
\* backed off after a request that timed out
C38_Witness ==
    /\ phase # "pool"
    /\ \A i \in Submitted : RecordsOf(i) # {}
    /\ \E i \in Submitted : RateSleepsOf(i) # <<>>
    /\ \E i \in Submitted : urls[i] = "slow" /\ BackoffsOf(i) # <<>>

====
